---- MODULE Spec2Model ----
(***************************************************************************)
(* Report lifecycle and access-controlled storage of the AI Investment     *)
(* Research Agent: the reports table and its cleanup functions             *)
(* (database/report schema), the report endpoints that sit on top of it,   *)
(* and the reports page of the frontend that calls them.                   *)
(*                                                                         *)
(* Time is counted in days (the unit of the schema's INTERVAL '5 days').   *)
(***************************************************************************)
EXTENDS Integers, Sequences, FiniteSets, TLC

VARIABLES
    users,      \* rows of table users (set of ids)
    sessions,   \* rows of table analysis_sessions: id -> [user_id]
    results,    \* rows of table analysis_results: id -> [session_id, report_id]
    reports,    \* rows of table reports: id -> row
    now,        \* CURRENT_TIMESTAMP, in days
    used,       \* history: the report ids handed out so far (a uuid is never reused)
    cause,      \* history: id -> which statement removed the row ("none" while untouched)
    ret,        \* value returned by the last database statement / endpoint call
    rd,         \* the retrieval (view / download) request in flight
    page,       \* reports page: the loaded list and the selection
    bulk,       \* reports page: the deleteSelectedReports run in progress
    sched,      \* cleanup scheduler: the background task of the backend
    auth,       \* AuthProvider: its state and the two localStorage entries
    analysis    \* analysis page: the state of the component and its timers

vars ==
    <<users, sessions, results, reports, now, used, cause, ret, rd, page, bulk, sched,
      auth, analysis>>

dbVars == <<users, sessions, results, reports, now, used, cause, ret>>

-----------------------------------------------------------------------------
(* Bounds of the model *)

UserIds == {"u1", "u2"}

SessionIds == {"s1"}

ResultIds == {"a1"}

ReportIds == {"r1", "r2"}

MaxCreateTime == 1

\* successful logins the backend answers
MaxLogins == 3

\* analyses the page submits
MaxRequests == 2

NULL == "NULL"

\* an id no row ever has
NoSuchId == "r0"

\* the position of a report id in the ascending order of uuids
IdRank(id) == IF id = "r1" THEN 1 ELSE 2

ReportTypes == {"pdf", "latex"}

\* INTERVAL '5 days'
RetentionDays == 5

MaxTime == MaxCreateTime + RetentionDays + 1

DaysThresholds == {3, RetentionDays}

\* text is a sequence of characters; NullStr is the SQL NULL of a text column
NullStr == <<NULL>>

\* ticker and company_name of the reports the model creates
Namings ==
    {[ticker |-> <<"A", "B">>, company_name |-> <<"a", "c">>],
     [ticker |-> <<"C">>, company_name |-> NullStr],
     [ticker |-> <<"B">>, company_name |-> <<"b">>]}

DefaultNaming == [ticker |-> <<"A", "B">>, company_name |-> <<"a", "c">>]

\* what the user types into the search box
SearchTerms == {<<>>, <<"a">>, <<"C">>}

-----------------------------------------------------------------------------
(* Table reports *)

\* the bytes the analysis engine hands over for report id in format type,
\* as a sequence of chunks
ContentOf(id, type) == <<<<id, type, 1>>, <<id, type, 2>>>>

\* created_at DEFAULT CURRENT_TIMESTAMP
CreatedAtDefault(t) == t

ExpiresAtNoWindow(t) == t

\* expires_at DEFAULT (CURRENT_TIMESTAMP + INTERVAL '5 days')
ExpiresAtDefault(t) == t + RetentionDays

\* the constraints of CREATE TABLE reports: user_id and session_id are
\* nullable foreign keys, file_content is NOT NULL
InsertAccepted(user_id, session_id, hasContent) ==
    /\ user_id # NULL => user_id \in users
    /\ session_id # NULL => session_id \in DOMAIN sessions
    /\ hasContent

RemoveRows(f, ids) == [k \in (DOMAIN f) \ ids |-> f[k]]

\* analysis_results.report_id REFERENCES reports(id) ON DELETE SET NULL
SetNullReportRefs(res, ids) ==
    [a \in DOMAIN res |->
        IF res[a].report_id \in ids THEN [res[a] EXCEPT !.report_id = NULL] ELSE res[a]]

Mark(c, ids, why) == [k \in DOMAIN c |-> IF k \in ids THEN why ELSE c[k]]

SoftDeleteReportRows(ids, why) ==
    /\ reports' = reports
    /\ results' = results
    /\ cause' = Mark(cause, ids, why)

\* DELETE FROM reports WHERE id IN ids, with its referential action
DeleteReportRows(ids, why) ==
    /\ reports' = RemoveRows(reports, ids)
    /\ results' = SetNullReportRefs(results, ids)
    /\ cause' = Mark(cause, ids, why)

-----------------------------------------------------------------------------
(* Initial state: the schema has just been installed, the users registered *)

IdleRead ==
    [pc |-> "idle", kind |-> "view", id |-> NoSuchId, requester |-> NULL,
     repr |-> "pdf", buf |-> <<>>, sent |-> <<>>, status |-> "none",
     afterDelete |-> FALSE]

IdleBulk ==
    [pc |-> "idle", todo |-> {}, totalSelected |-> 0, attempted |-> {},
     deletedCount |-> 0, removed |-> {}, toast |-> "none", reported |-> -1]

\* AuthProvider before its effect has run, localStorage empty
InitialAuth ==
    [mounted |-> FALSE, user |-> NULL, token |-> NULL, isLoading |-> TRUE,
     auth_token |-> NULL, auth_user |-> NULL, pending |-> NULL, returned |-> "none",
     toast |-> "none", issued |-> 0]

\* the useState initial values of AnalysisPage
InitialAnalysis ==
    [ticker |-> <<>>, isAnalyzing |-> FALSE, result |-> NULL, progress |-> 0,
     showProgress |-> FALSE, pc |-> "idle", timers |-> 0, requests |-> 0,
     body |-> <<>>, response |-> "none", outcome |-> "none", toast |-> "none"]

\* the scheduler between two cleanup cycles
IdleSched ==
    [pc |-> "sleeping", active |-> 0, skipped |-> FALSE, last |-> "none",
     recovered |-> FALSE]

Init ==
    /\ users = UserIds
    /\ sessions = [s \in {} |-> [user_id |-> NULL]]
    /\ results = [a \in {} |-> [session_id |-> NULL, report_id |-> NULL]]
    /\ reports = [r \in {} |-> [user_id |-> NULL]]
    /\ now = 0
    /\ used = {}
    /\ cause = [r \in ReportIds |-> "none"]
    /\ ret = [op |-> "none"]
    /\ rd = IdleRead
    /\ page = [reports |-> {}, selectedReports |-> {}, showDeleteSelectedConfirm |-> FALSE,
               showDeleteConfirm |-> NULL, toast |-> "none",
               searchTerm |-> <<>>, loaded |-> [id \in {} |-> DefaultNaming]]
    /\ bulk = IdleBulk
    /\ sched = IdleSched
    /\ auth = InitialAuth
    /\ analysis = InitialAnalysis

-----------------------------------------------------------------------------
(* Statements on the tables *)

\* INSERT INTO reports: the analysis engine hands over owner, session, ticker,
\* company name, format and bytes; id, created_at and expires_at take their
\* column defaults
CreateReport(user_id, session_id, naming, type, hasContent) ==
    /\ now <= MaxCreateTime
    /\ \E id \in ReportIds \ used :
         LET row == [user_id |-> user_id, session_id |-> session_id,
                     ticker |-> naming.ticker,
                     company_name |-> naming.company_name,
                     report_type |-> type,
                     file_content |-> ContentOf(id, type),
                     created_at |-> CreatedAtDefault(now),
                     expires_at |-> ExpiresAtDefault(now)]
         IN  IF InsertAccepted(user_id, session_id, hasContent)
             THEN /\ reports' = [k \in DOMAIN reports \cup {id} |->
                                    IF k = id THEN row ELSE reports[k]]
                  /\ used' = used \cup {id}
                  /\ ret' = [op |-> "create", status |-> "ok",
                             ownerless |-> user_id = NULL, hasContent |-> hasContent]
             ELSE /\ UNCHANGED <<reports, used>>
                  /\ ret' = [op |-> "create", status |-> "rejected",
                             ownerless |-> user_id = NULL, hasContent |-> hasContent]
    /\ UNCHANGED <<users, sessions, results, now, cause>>

\* the INSERT for a report of the default company
Create(user_id, session_id, type, hasContent) ==
    CreateReport(user_id, session_id, DefaultNaming, type, hasContent)

\* CURRENT_TIMESTAMP advances
Tick ==
    /\ now < MaxTime
    /\ now' = now + 1
    /\ UNCHANGED <<users, sessions, results, reports, used, cause, ret>>

ExpiredRowsInclusive(rows, t) == {id \in DOMAIN rows : rows[id].expires_at <= t}

ExpiredRowsReversed(rows, t) == {id \in DOMAIN rows : rows[id].expires_at > t}

ExpiredRowsOne(rows, t) ==
    LET all == {id \in DOMAIN rows : rows[id].expires_at < t}
    IN  IF all = {} THEN {} ELSE {CHOOSE id \in all : TRUE}

\* WHERE expires_at < CURRENT_TIMESTAMP
ExpiredRows(rows, t) == {id \in DOMAIN rows : rows[id].expires_at < t}

\* WHERE created_at < (CURRENT_TIMESTAMP - INTERVAL '1 day' * days_threshold)
OldRows(rows, t, days_threshold) ==
    {id \in DOMAIN rows : rows[id].created_at < t - 1 * days_threshold}

\* SELECT cleanup_expired_reports()
cleanup_expired_reports ==
    LET ids == ExpiredRows(reports, now)
    IN  /\ DeleteReportRows(ids, "expired")
        /\ ret' = [op |-> "cleanup_expired_reports", at |-> now,
                   deleted_count |-> Cardinality(ids)]
        /\ UNCHANGED <<users, sessions, now, used>>

\* SELECT cleanup_old_reports(days_threshold)
cleanup_old_reports(days_threshold) ==
    LET ids == OldRows(reports, now, days_threshold)
    IN  /\ DeleteReportRows(ids, "old")
        /\ ret' = [op |-> "cleanup_old_reports", deleted_count |-> Cardinality(ids)]
        /\ UNCHANGED <<users, sessions, now, used>>

\* reports.user_id REFERENCES users(id) ON DELETE CASCADE,
\* reports.session_id REFERENCES analysis_sessions(id) ON DELETE CASCADE
CascadedReports(rows, delUsers, delSessions) ==
    {id \in DOMAIN rows :
        rows[id].user_id \in delUsers \/ rows[id].session_id \in delSessions}

\* analysis_sessions.user_id REFERENCES users(id) ON DELETE CASCADE
CascadedSessions(rows, delUsers) == {s \in DOMAIN rows : rows[s].user_id \in delUsers}

\* analysis_results.session_id REFERENCES analysis_sessions(id) ON DELETE CASCADE
CascadedResults(rows, delSessions) == {a \in DOMAIN rows : rows[a].session_id \in delSessions}

\* DELETE FROM users / analysis_sessions with every referential action it triggers
DeleteParents(delUsers, delSessions0, why) ==
    LET delSessions == delSessions0 \cup CascadedSessions(sessions, delUsers)
        delReports == CascadedReports(reports, delUsers, delSessions)
        delResults == CascadedResults(results, delSessions)
    IN  /\ users' = users \ delUsers
        /\ sessions' = RemoveRows(sessions, delSessions)
        /\ results' = SetNullReportRefs(RemoveRows(results, delResults), delReports)
        /\ reports' = RemoveRows(reports, delReports)
        /\ cause' = Mark(cause, delReports, why)
        /\ UNCHANGED <<now, used, ret>>

\* DELETE FROM users WHERE id = u
DeleteUser(u) ==
    /\ u \in users
    /\ DeleteParents({u}, {}, "cascade_user")

\* DELETE FROM analysis_sessions WHERE id = s
DeleteSession(s) ==
    /\ s \in DOMAIN sessions
    /\ DeleteParents({}, {s}, "cascade_session")

\* INSERT INTO analysis_sessions
InsertSession(s, u) ==
    /\ s \notin DOMAIN sessions
    /\ u # NULL => u \in users
    /\ sessions' = [k \in DOMAIN sessions \cup {s} |->
                        IF k = s THEN [user_id |-> u] ELSE sessions[k]]
    /\ UNCHANGED <<users, results, reports, now, used, cause, ret>>

\* INSERT INTO analysis_results
InsertResult(a, s, r) ==
    /\ a \notin DOMAIN results
    /\ s # NULL => s \in DOMAIN sessions
    /\ r # NULL => r \in DOMAIN reports
    /\ results' = [k \in DOMAIN results \cup {a} |->
                        IF k = a THEN [session_id |-> s, report_id |-> r] ELSE results[k]]
    /\ UNCHANGED <<users, sessions, reports, now, used, cause, ret>>

DeleteResultCascading(a) ==
    /\ a \in DOMAIN results
    /\ results' = RemoveRows(results, {a})
    /\ reports' = RemoveRows(reports, {results[a].report_id})
    /\ UNCHANGED <<users, sessions, now, used, cause, ret>>

\* DELETE FROM analysis_results WHERE id = a
DeleteResult(a) ==
    /\ a \in DOMAIN results
    /\ results' = RemoveRows(results, {a})
    /\ UNCHANGED <<users, sessions, reports, now, used, cause, ret>>

-----------------------------------------------------------------------------
(* Report endpoints: Access Guard, Blob Store and Format Resolver *)

\* Access Guard: only owner_id = requester_id may read or delete
Authorize(row, requester) == row.user_id = requester

ExternalStatusLeaking(internal) == internal

\* Forbidden and NotFound are one outcome at the protocol boundary
ExternalStatus(internal) ==
    IF internal \in {"NotFound", "Forbidden"} THEN "not_accessible" ELSE internal

\* Blob Store Get followed by Access Guard Authorize
Access(id, requester) ==
    IF id \notin DOMAIN reports THEN "NotFound"
    ELSE IF ~Authorize(reports[id], requester) THEN "Forbidden"
    ELSE "ok"

SelectBytesSubstituting(row, repr) == row.file_content

\* Format Resolver: the bytes of the requested representation, <<>> when the
\* report was not stored in that representation
SelectBytes(row, repr) == IF row.report_type = repr THEN row.file_content ELSE <<>>

\* the representation a request asks for: /view is the rendered document,
\* /download?format= names it
Representation(kind, format) == IF kind = "view" THEN "pdf" ELSE format

\* the response of GET /reports/{id}/view and GET /reports/{id}/download
Retrieve(kind, id, requester, format) ==
    LET a == Access(id, requester)
        repr == Representation(kind, format)
    IN  IF a # "ok" THEN [status |-> ExternalStatus(a), bytes |-> <<>>]
        ELSE IF SelectBytes(reports[id], repr) = <<>>
             THEN [status |-> "RepresentationUnavailable", bytes |-> <<>>]
             ELSE [status |-> "ok", bytes |-> SelectBytes(reports[id], repr)]

\* the ids a request can name: a uuid is known only once it has been handed
\* out; NoSuchId stands for every other id
Known == used \cup {NoSuchId}

\* DELETE /reports/{id}
DeleteOne(id, requester) ==
    /\ id \in Known
    /\ requester \in users
    /\ LET a == Access(id, requester)
       IN  /\ IF a = "ok"
              THEN DeleteReportRows({id}, "explicit")
              ELSE UNCHANGED <<reports, results, cause>>
           /\ ret' = [op |-> "delete", status |-> ExternalStatus(a),
                      foreign |-> a = "Forbidden"]
    /\ UNCHANGED <<users, sessions, now, used>>

\* DELETE /reports/cleanup: every report of the requester
CleanupAll(requester) ==
    /\ requester \in users
    /\ LET ids == {id \in DOMAIN reports : Authorize(reports[id], requester)}
       IN  /\ DeleteReportRows(ids, "explicit")
           /\ ret' = [op |-> "cleanup_all", deleted_count |-> Cardinality(ids)]
    /\ UNCHANGED <<users, sessions, now, used>>

RemainingLive(r) ==
    IF r.id \in DOMAIN reports
    THEN SubSeq(r.buf, Len(r.sent) + 1, Len(r.buf))
    ELSE <<>>

\* the chunks of the fetched row that the response has still to deliver
Remaining(r) == SubSeq(r.buf, Len(r.sent) + 1, Len(r.buf))

\* a retrieval request arrives: authorize, fetch the row (one SELECT), resolve
ReadBegin(kind, id, requester, format) ==
    /\ rd.pc # "streaming"
    /\ id \in Known
    /\ requester \in users
    /\ LET resp == Retrieve(kind, id, requester, format)
       IN  rd' = [pc |-> IF resp.status = "ok" THEN "streaming" ELSE "done",
                  kind |-> kind, id |-> id, requester |-> requester,
                  repr |-> Representation(kind, format),
                  buf |-> resp.bytes, sent |-> <<>>, status |-> resp.status,
                  afterDelete |-> id \in used /\ cause[id] # "none"]
    /\ UNCHANGED <<dbVars, page, bulk, sched, auth, analysis>>

\* the response body is streamed chunk by chunk
ReadChunk ==
    /\ rd.pc = "streaming"
    /\ Remaining(rd) # <<>>
    /\ rd' = [rd EXCEPT !.sent = Append(rd.sent, Head(Remaining(rd)))]
    /\ UNCHANGED <<dbVars, page, bulk, sched, auth, analysis>>

\* the response is complete
ReadEnd ==
    /\ rd.pc = "streaming"
    /\ Remaining(rd) = <<>>
    /\ rd' = [rd EXCEPT !.pc = "done"]
    /\ UNCHANGED <<dbVars, page, bulk, sched, auth, analysis>>

-----------------------------------------------------------------------------
(* Spec: the tables with every statement and endpoint that changes them *)

Next ==
    \/ \E u \in UserIds \cup {NULL}, s \in SessionIds \cup {NULL}, hasContent \in BOOLEAN :
            Create(u, s, "pdf", hasContent) /\ UNCHANGED <<rd, page, bulk, sched, auth, analysis>>
    \/ Tick /\ UNCHANGED <<rd, page, bulk, sched, auth, analysis>>
    \/ cleanup_expired_reports /\ UNCHANGED <<rd, page, bulk, sched, auth, analysis>>
    \/ \E d \in DaysThresholds : cleanup_old_reports(d) /\ UNCHANGED <<rd, page, bulk, sched, auth, analysis>>
    \/ \E u \in UserIds : DeleteUser(u) /\ UNCHANGED <<rd, page, bulk, sched, auth, analysis>>
    \/ \E s \in SessionIds : DeleteSession(s) /\ UNCHANGED <<rd, page, bulk, sched, auth, analysis>>
    \/ \E s \in SessionIds, u \in UserIds : InsertSession(s, u) /\ UNCHANGED <<rd, page, bulk, sched, auth, analysis>>
    \/ \E a \in ResultIds, s \in SessionIds, r \in ReportIds \cup {NULL} :
            InsertResult(a, s, r) /\ UNCHANGED <<rd, page, bulk, sched, auth, analysis>>
    \/ \E a \in ResultIds : DeleteResult(a) /\ UNCHANGED <<rd, page, bulk, sched, auth, analysis>>
    \/ \E id \in ReportIds \cup {NoSuchId}, u \in UserIds :
            DeleteOne(id, u) /\ UNCHANGED <<rd, page, bulk, sched, auth, analysis>>
    \/ \E u \in UserIds : CleanupAll(u) /\ UNCHANGED <<rd, page, bulk, sched, auth, analysis>>

Spec == Init /\ [][Next]_vars

-----------------------------------------------------------------------------
(* SpecRead: one retrieval in flight while reports are created, deleted and *)
(* reclaimed                                                                *)

NextRead ==
    \/ \E u \in UserIds, type \in ReportTypes :
            Create(u, NULL, type, TRUE) /\ UNCHANGED <<rd, page, bulk, sched, auth, analysis>>
    \/ Tick /\ UNCHANGED <<rd, page, bulk, sched, auth, analysis>>
    \/ cleanup_expired_reports /\ UNCHANGED <<rd, page, bulk, sched, auth, analysis>>
    \/ \E id \in ReportIds \cup {NoSuchId}, u \in UserIds :
            DeleteOne(id, u) /\ UNCHANGED <<rd, page, bulk, sched, auth, analysis>>
    \/ \E kind \in {"view", "download"}, id \in ReportIds \cup {NoSuchId},
          u \in UserIds, format \in ReportTypes :
            ReadBegin(kind, id, u, format)
    \/ ReadChunk
    \/ ReadEnd

SpecRead == Init /\ [][NextRead]_vars

-----------------------------------------------------------------------------
(* The search filter of the reports page *)

\* String.prototype.toLowerCase over the alphabet of the model
LowerChar(c) ==
    IF c = "A" THEN "a" ELSE IF c = "B" THEN "b" ELSE IF c = "C" THEN "c" ELSE c

toLowerCase(str) == [i \in 1..Len(str) |-> LowerChar(str[i])]

\* String.prototype.includes
includes(str, t) ==
    \E i \in 0..(Len(str) - Len(t)) : SubSeq(str, i + 1, i + Len(t)) = t

\* report.ticker.toLowerCase().includes(searchTerm.toLowerCase())
TickerMatches(row, term) == includes(toLowerCase(row.ticker), toLowerCase(term))

\* report.company_name.toLowerCase() on a null company_name is a TypeError; the
\* right operand of || is evaluated only when the left one is false
FilterThrows(row, term) == ~TickerMatches(row, term) /\ row.company_name = NullStr

\* the predicate of reports.filter(...)
Matches(row, term) ==
    \/ TickerMatches(row, term)
    \/ /\ row.company_name # NullStr
       /\ includes(toLowerCase(row.company_name), toLowerCase(term))

-----------------------------------------------------------------------------
(* Reports page (frontend/app/reports/page.tsx) of the signed-in user *)

\* the user whose token the page sends
pageUser == "u1"

\* GET /reports/history: the requester's own reports
History(requester) == {id \in DOMAIN reports : Authorize(reports[id], requester)}

\* ticker and company_name of the rows a history response carries
LoadedNaming(ids) ==
    [id \in ids |-> [ticker |-> reports[id].ticker,
                     company_name |-> reports[id].company_name]]

\* fetchReports: a successful response replaces the list, a failure leaves it
fetchReports(ok) ==
    /\ bulk.pc # "loop"
    /\ page' = [page EXCEPT !.reports = IF ok THEN History(pageUser) ELSE @,
                            !.loaded = IF ok THEN LoadedNaming(History(pageUser)) ELSE @]
    /\ UNCHANGED <<dbVars, rd, bulk, sched, auth, analysis>>

\* rendering the list throws when the filter meets a null company_name
PageFilterThrows ==
    \E id \in page.reports : FilterThrows(page.loaded[id], page.searchTerm)

Rendered == ~PageFilterThrows

\* the ids of filteredReports
FilteredIds == {id \in page.reports : Matches(page.loaded[id], page.searchTerm)}

\* the search box
setSearchTerm(term) ==
    /\ bulk.pc # "loop"
    /\ Rendered
    /\ page' = [page EXCEPT !.searchTerm = term]
    /\ UNCHANGED <<dbVars, rd, bulk, sched, auth, analysis>>

\* checked={selectedReports.size === filteredReports.length && filteredReports.length > 0}
SelectAllChecked ==
    /\ Cardinality(page.selectedReports) = Cardinality(FilteredIds)
    /\ Cardinality(FilteredIds) > 0

\* the Select All checkbox, rendered while reports.length > 0
toggleSelectAll ==
    /\ bulk.pc # "loop"
    /\ Rendered
    /\ page.reports # {}
    /\ page' = [page EXCEPT !.selectedReports =
                    IF Cardinality(page.selectedReports) = Cardinality(FilteredIds)
                    THEN {} ELSE FilteredIds]
    /\ UNCHANGED <<dbVars, rd, bulk, sched, auth, analysis>>

\* the checkbox of a report card of the filtered list
toggleReportSelection(reportId) ==
    /\ bulk.pc # "loop"
    /\ Rendered
    /\ reportId \in FilteredIds
    /\ page' = [page EXCEPT !.selectedReports =
                    IF reportId \in @ THEN @ \ {reportId} ELSE @ \cup {reportId}]
    /\ UNCHANGED <<dbVars, rd, bulk, sched, auth, analysis>>

\* the "Delete Selected" button, shown while something is selected
openDeleteSelectedConfirm ==
    /\ bulk.pc # "loop"
    /\ page.selectedReports # {}
    /\ ~page.showDeleteSelectedConfirm
    /\ page' = [page EXCEPT !.showDeleteSelectedConfirm = TRUE]
    /\ UNCHANGED <<dbVars, rd, bulk, sched, auth, analysis>>

\* deleteSelectedReports is entered from the confirmation modal
deleteSelectedReportsStart ==
    /\ bulk.pc # "loop"
    /\ page.showDeleteSelectedConfirm
    /\ IF page.selectedReports = {}
       THEN bulk' = [IdleBulk EXCEPT !.pc = "done", !.toast = "No reports selected"]
       ELSE bulk' = [IdleBulk EXCEPT !.pc = "loop", !.todo = page.selectedReports,
                                     !.totalSelected = Cardinality(page.selectedReports)]
    /\ UNCHANGED <<dbVars, rd, page, sched, auth, analysis>>

\* one iteration of the for loop: await fetch(DELETE /reports/{reportId}).
\* failure = "network": fetch rejects and control leaves the loop for the catch;
\* failure = "server": the backend answers with a non-success status;
\* failure = "none": the endpoint runs
deleteSelectedReportsStep(failure) ==
    /\ bulk.pc = "loop"
    /\ \E reportId \in bulk.todo :
         LET a == Access(reportId, pageUser)
             ok == failure = "none" /\ a = "ok"
         IN  /\ IF ok
                THEN DeleteReportRows({reportId}, "explicit")
                ELSE UNCHANGED <<reports, results, cause>>
             /\ IF failure = "network"
                THEN bulk' = [bulk EXCEPT !.pc = "done",
                                          !.attempted = @ \cup {reportId},
                                          !.toast = "Failed to delete selected reports"]
                ELSE bulk' = [bulk EXCEPT !.todo = @ \ {reportId},
                                          !.attempted = @ \cup {reportId},
                                          !.deletedCount = IF ok THEN @ + 1 ELSE @,
                                          !.removed = IF ok THEN @ \cup {reportId} ELSE @]
    /\ UNCHANGED <<users, sessions, now, used, ret, rd, page, sched, auth, analysis>>

\* after the loop: the toast with the count, the refresh, the cleared selection
deleteSelectedReportsFinish(fetchOk) ==
    /\ bulk.pc = "loop"
    /\ bulk.todo = {}
    /\ IF bulk.deletedCount > 0
       THEN /\ bulk' = [bulk EXCEPT !.pc = "done", !.toast = "Successfully deleted",
                                    !.reported = bulk.deletedCount]
            /\ page' = [page EXCEPT !.reports = IF fetchOk THEN History(pageUser) ELSE @,
                                    !.loaded = IF fetchOk THEN LoadedNaming(History(pageUser))
                                               ELSE @,
                                    !.selectedReports = {},
                                    !.showDeleteSelectedConfirm = FALSE]
       ELSE /\ bulk' = [bulk EXCEPT !.pc = "done", !.toast = "Failed to delete any reports",
                                    !.reported = 0]
            /\ page' = [page EXCEPT !.showDeleteSelectedConfirm = FALSE]
    /\ UNCHANGED <<dbVars, rd, sched, auth, analysis>>

\* the trash button of a report card
openDeleteConfirm(reportId) ==
    /\ bulk.pc # "loop"
    /\ reportId \in page.reports
    /\ page.showDeleteConfirm = NULL
    /\ page' = [page EXCEPT !.showDeleteConfirm = reportId]
    /\ UNCHANGED <<dbVars, rd, bulk, sched, auth, analysis>>

\* Cancel in the confirmation modal
cancelDeleteConfirm ==
    /\ bulk.pc # "loop"
    /\ page.showDeleteConfirm # NULL
    /\ page' = [page EXCEPT !.showDeleteConfirm = NULL]
    /\ UNCHANGED <<dbVars, rd, bulk, sched, auth, analysis>>

deleteReportClosing(failure) ==
    /\ bulk.pc # "loop"
    /\ page.showDeleteConfirm # NULL
    /\ IF failure = "none"
       THEN DeleteOne(page.showDeleteConfirm, pageUser)
       ELSE UNCHANGED dbVars
    /\ IF failure = "none" /\ Access(page.showDeleteConfirm, pageUser) = "ok"
       THEN page' = [page EXCEPT !.reports = @ \ {page.showDeleteConfirm},
                                 !.loaded = RemoveRows(@, {page.showDeleteConfirm}),
                                 !.showDeleteConfirm = NULL,
                                 !.toast = "Report deleted successfully!"]
       ELSE page' = [page EXCEPT !.showDeleteConfirm = NULL,
                                 !.toast = "Failed to delete report"]
    /\ UNCHANGED <<rd, bulk, sched, auth, analysis>>

deleteReportOptimistic(failure) ==
    /\ bulk.pc # "loop"
    /\ page.showDeleteConfirm # NULL
    /\ IF failure = "none"
       THEN DeleteOne(page.showDeleteConfirm, pageUser)
       ELSE UNCHANGED dbVars
    /\ page' = [page EXCEPT !.reports = @ \ {page.showDeleteConfirm},
                            !.loaded = RemoveRows(@, {page.showDeleteConfirm}),
                            !.showDeleteConfirm = NULL,
                            !.toast = "Report deleted successfully!"]
    /\ UNCHANGED <<rd, bulk, sched, auth, analysis>>

\* deleteReport(showDeleteConfirm), entered from the confirmation modal.
\* failure = "network": fetch rejects (catch); failure = "server": the backend
\* answers with a non-success status; failure = "none": the endpoint runs and
\* response.ok is its answer
deleteReport(failure) ==
    /\ bulk.pc # "loop"
    /\ page.showDeleteConfirm # NULL
    /\ IF failure = "none"
       THEN DeleteOne(page.showDeleteConfirm, pageUser)
       ELSE UNCHANGED dbVars
    /\ IF failure = "none" /\ Access(page.showDeleteConfirm, pageUser) = "ok"
       THEN page' = [page EXCEPT !.reports = @ \ {page.showDeleteConfirm},
                                 !.loaded = RemoveRows(@, {page.showDeleteConfirm}),
                                 !.showDeleteConfirm = NULL,
                                 !.toast = "Report deleted successfully!"]
       ELSE page' = [page EXCEPT !.toast = "Failed to delete report"]
    /\ UNCHANGED <<rd, bulk, sched, auth, analysis>>

NextPage ==
    \/ \E u \in UserIds : Create(u, NULL, "pdf", TRUE) /\ UNCHANGED <<rd, page, bulk, sched, auth, analysis>>
    \/ Tick /\ UNCHANGED <<rd, page, bulk, sched, auth, analysis>>
    \/ cleanup_expired_reports /\ UNCHANGED <<rd, page, bulk, sched, auth, analysis>>
    \/ \E ok \in BOOLEAN : fetchReports(ok)
    \/ \E id \in ReportIds : toggleReportSelection(id)
    \/ openDeleteSelectedConfirm
    \/ deleteSelectedReportsStart
    \/ \E failure \in {"none", "network", "server"} : deleteSelectedReportsStep(failure)
    \/ \E fetchOk \in BOOLEAN : deleteSelectedReportsFinish(fetchOk)
    \/ \E id \in ReportIds : openDeleteConfirm(id)
    \/ cancelDeleteConfirm
    \/ \E failure \in {"none", "network", "server"} : deleteReport(failure)

SpecPage == Init /\ [][NextPage]_vars

\* SpecSelect: the signed-in user's reports are created and loaded while the
\* user types search terms and ticks report cards and Select All
NextSelect ==
    \/ \E naming \in Namings :
            CreateReport(pageUser, NULL, naming, "pdf", TRUE)
                /\ UNCHANGED <<rd, page, bulk, sched, auth, analysis>>
    \/ \E ok \in BOOLEAN : fetchReports(ok)
    \/ \E term \in SearchTerms : setSearchTerm(term)
    \/ \E id \in ReportIds : toggleReportSelection(id)
    \/ toggleSelectAll

SpecSelect == Init /\ [][NextSelect]_vars

-----------------------------------------------------------------------------
(* History: the view user_report_history, the history endpoint and the     *)
(* filtered list of the reports page; retrieval as one request              *)

\* LEFT JOIN analysis_sessions s ON r.session_id = s.id
\* LEFT JOIN analysis_results ar ON s.id = ar.session_id:
\* the results joined to report id, NULL when the join finds none
JoinedResults(id) ==
    LET s == reports[id].session_id
        m == {a \in DOMAIN results : s \in DOMAIN sessions /\ results[a].session_id = s}
    IN  IF m = {} THEN {NULL} ELSE m

\* the select list of the view: columns of reports without file_content
\* (filename and file_size are not part of the model), ar for the columns of
\* the joined analysis result
ViewRow(id, a) ==
    [report_id |-> id,
     user_id |-> reports[id].user_id,
     ticker |-> reports[id].ticker,
     company_name |-> reports[id].company_name,
     report_type |-> reports[id].report_type,
     created_at |-> reports[id].created_at,
     expires_at |-> reports[id].expires_at,
     ar |-> a]

user_report_history_unexpired ==
    UNION {{ViewRow(id, a) : a \in JoinedResults(id)} :
                id \in {k \in DOMAIN reports : reports[k].expires_at > now}}

\* CREATE OR REPLACE VIEW user_report_history: one row per report and joined result
user_report_history ==
    UNION {{ViewRow(id, a) : a \in JoinedResults(id)} : id \in DOMAIN reports}

OrderedByCreatedAtAsc(seq) ==
    \A i, j \in 1..Len(seq) : i < j => seq[i].created_at <= seq[j].created_at

\* ORDER BY r.created_at DESC
OrderedByCreatedAt(seq) ==
    \A i, j \in 1..Len(seq) : i < j => seq[i].created_at >= seq[j].created_at

\* every sequence in which a query may return the rows S: the ORDER BY fixes
\* nothing about rows with equal created_at
Orderings(S) ==
    {seq \in [1..Cardinality(S) -> S] :
        /\ \A i, j \in 1..Cardinality(S) : i # j => seq[i] # seq[j]
        /\ OrderedByCreatedAt(seq)}

\* GET /reports/history: the rows of the view that belong to the requester
HistoryRows(requester) == {row \in user_report_history : row.user_id = requester}

\* filteredReports: the loaded list under the search term, in the loaded order
filteredReports(seq, term) ==
    IF \E i \in 1..Len(seq) : FilterThrows(seq[i], term)
    THEN [error |-> "TypeError", rows |-> <<>>]
    ELSE [error |-> "none", rows |-> SelectSeq(seq, LAMBDA row : Matches(row, term))]

\* the reports page of requester loads the history and shows it under term
List(requester, term) ==
    /\ requester \in users
    /\ \E seq \in Orderings(HistoryRows(requester)) :
         LET shown == filteredReports(seq, term)
         IN  ret' = [op |-> "history", requester |-> requester, term |-> term,
                     error |-> shown.error, rows |-> shown.rows]
    /\ UNCHANGED <<users, sessions, results, reports, now, used, cause>>

\* where report id stands in its retention window
Lifetime(id) ==
    IF id \notin DOMAIN reports THEN "absent"
    ELSE IF now < reports[id].expires_at THEN "live"
    ELSE IF now = reports[id].expires_at THEN "due"
    ELSE "overdue"

GetReportSliding(kind, id, requester, format) ==
    /\ id \in Known
    /\ requester \in users
    /\ LET resp == Retrieve(kind, id, requester, format)
       IN  /\ ret' = [op |-> "retrieve", kind |-> kind, id |-> id,
                      requester |-> requester, status |-> resp.status,
                      bytes |-> resp.bytes, lifetime |-> Lifetime(id)]
           /\ reports' = IF resp.status = "ok"
                         THEN [reports EXCEPT ![id].expires_at = ExpiresAtDefault(now)]
                         ELSE reports
    /\ UNCHANGED <<users, sessions, results, now, used, cause>>

\* GET /reports/{id}/view and GET /reports/{id}/download as one request with
\* its whole response
GetReport(kind, id, requester, format) ==
    /\ id \in Known
    /\ requester \in users
    /\ LET resp == Retrieve(kind, id, requester, format)
       IN  ret' = [op |-> "retrieve", kind |-> kind, id |-> id,
                   requester |-> requester, status |-> resp.status,
                   bytes |-> resp.bytes, lifetime |-> Lifetime(id)]
    /\ UNCHANGED <<users, sessions, results, reports, now, used, cause>>

\* SpecQuery: reports of both formats are created, age, are deleted and
\* reclaimed while their owners and others retrieve and list them
NextQuery ==
    \/ \E u \in UserIds, type \in ReportTypes :
            Create(u, NULL, type, TRUE) /\ UNCHANGED <<rd, page, bulk, sched, auth, analysis>>
    \/ Tick /\ UNCHANGED <<rd, page, bulk, sched, auth, analysis>>
    \/ cleanup_expired_reports /\ UNCHANGED <<rd, page, bulk, sched, auth, analysis>>
    \/ \E id \in ReportIds, u \in UserIds :
            DeleteOne(id, u) /\ UNCHANGED <<rd, page, bulk, sched, auth, analysis>>
    \/ \E kind \in {"view", "download"}, id \in ReportIds \cup {NoSuchId},
          u \in UserIds, format \in ReportTypes :
            GetReport(kind, id, u, format) /\ UNCHANGED <<rd, page, bulk, sched, auth, analysis>>
    \/ \E u \in UserIds : List(u, <<>>) /\ UNCHANGED <<rd, page, bulk, sched, auth, analysis>>

SpecQuery == Init /\ [][NextQuery]_vars

\* SpecList: reports with and without a company name are created and
\* reclaimed while the users list them under a search term
NextList ==
    \/ \E u \in UserIds, naming \in Namings :
            CreateReport(u, NULL, naming, "pdf", TRUE) /\ UNCHANGED <<rd, page, bulk, sched, auth, analysis>>
    \/ Tick /\ UNCHANGED <<rd, page, bulk, sched, auth, analysis>>
    \/ cleanup_expired_reports /\ UNCHANGED <<rd, page, bulk, sched, auth, analysis>>
    \/ \E u \in UserIds, term \in SearchTerms :
            List(u, term) /\ UNCHANGED <<rd, page, bulk, sched, auth, analysis>>

SpecList == Init /\ [][NextList]_vars

-----------------------------------------------------------------------------
(* SpecJoin: reports of analysis sessions that have several results *)

\* ids of analysis_results; the table has no unique constraint on session_id
JoinResultIds == {"a1", "a2"}

NextJoin ==
    \/ \E s \in SessionIds, u \in UserIds :
            InsertSession(s, u) /\ UNCHANGED <<rd, page, bulk, sched, auth, analysis>>
    \/ \E u \in UserIds, s \in SessionIds \cup {NULL} :
            Create(u, s, "pdf", TRUE) /\ UNCHANGED <<rd, page, bulk, sched, auth, analysis>>
    \/ \E a \in JoinResultIds, s \in SessionIds, r \in ReportIds \cup {NULL} :
            InsertResult(a, s, r) /\ UNCHANGED <<rd, page, bulk, sched, auth, analysis>>
    \/ \E a \in JoinResultIds : DeleteResult(a) /\ UNCHANGED <<rd, page, bulk, sched, auth, analysis>>
    \/ \E u \in UserIds : List(u, <<>>) /\ UNCHANGED <<rd, page, bulk, sched, auth, analysis>>

SpecJoin == Init /\ [][NextJoin]_vars

-----------------------------------------------------------------------------
(* Cleanup Scheduler: the background task that invokes Reclaim             *)

SchedulerTickOverlapping ==
    /\ sched.pc # "crashed"
    /\ sched' = [sched EXCEPT !.pc = "reclaiming", !.active = @ + 1, !.skipped = FALSE]
    /\ UNCHANGED dbVars

\* the timer fires: a Reclaim starts, unless the previous one is still
\* running, in which case this tick is skipped
SchedulerTick ==
    /\ sched.pc # "crashed"
    /\ IF sched.pc = "reclaiming"
       THEN sched' = [sched EXCEPT !.skipped = TRUE]
       ELSE sched' = [sched EXCEPT !.pc = "reclaiming", !.active = @ + 1,
                                   !.skipped = FALSE]
    /\ UNCHANGED dbVars

\* the running Reclaim executes its statement and the cycle ends
ReclaimOk ==
    /\ sched.pc = "reclaiming"
    /\ cleanup_expired_reports
    /\ sched' = [sched EXCEPT !.pc = "sleeping", !.active = @ - 1, !.last = "ok",
                              !.recovered = (sched.last = "failed")]

ReclaimFailCrashing ==
    /\ sched.pc = "reclaiming"
    /\ sched' = [sched EXCEPT !.pc = "crashed", !.active = @ - 1, !.last = "failed",
                              !.recovered = FALSE]
    /\ UNCHANGED dbVars

\* the running Reclaim fails (StorageFailure): the statement has no effect,
\* the error is logged and the loop goes back to sleep
ReclaimFail ==
    /\ sched.pc = "reclaiming"
    /\ sched' = [sched EXCEPT !.pc = "sleeping", !.active = @ - 1, !.last = "failed",
                              !.recovered = FALSE]
    /\ UNCHANGED dbVars

\* the clock of SpecSched
ClockStep == Tick /\ UNCHANGED <<rd, page, bulk, sched, auth, analysis>>

NextSched ==
    \/ \E u \in UserIds : Create(u, NULL, "pdf", TRUE) /\ UNCHANGED <<rd, page, bulk, sched, auth, analysis>>
    \/ ClockStep
    \/ \E id \in ReportIds, u \in UserIds :
            DeleteOne(id, u) /\ UNCHANGED <<rd, page, bulk, sched, auth, analysis>>
    \/ SchedulerTick /\ UNCHANGED <<rd, page, bulk, auth, analysis>>
    \/ ReclaimOk /\ UNCHANGED <<rd, page, bulk, auth, analysis>>
    \/ ReclaimFail /\ UNCHANGED <<rd, page, bulk, auth, analysis>>

\* SpecSched: reports are created, age and are deleted while the scheduler
\* runs its cycles
SpecSched == Init /\ [][NextSched]_vars

\* SpecSchedFair: time passes, the timer keeps firing, a running Reclaim ends,
\* and storage failures are transient (a Reclaim that is started again and
\* again succeeds at some point)
SpecSchedFair ==
    /\ Init
    /\ [][NextSched]_vars
    /\ WF_vars(ClockStep)
    /\ WF_vars(SchedulerTick /\ UNCHANGED <<rd, page, bulk, auth, analysis>>)
    /\ WF_vars((ReclaimOk \/ ReclaimFail) /\ UNCHANGED <<rd, page, bulk, auth, analysis>>)
    /\ SF_vars(ReclaimOk /\ UNCHANGED <<rd, page, bulk, auth, analysis>>)

-----------------------------------------------------------------------------
(* AuthProvider (contexts/AuthContext) *)

\* what can be typed into the login form: the credentials of a user, or wrong ones
Logins == UserIds \cup {"bad"}

\* data.access_token of the n-th successful POST /auth/login: every login is
\* answered with a token of its own
TokenOf(n) == <<"jwt1", "jwt2", "jwt3", "jwt4">>[n]

\* JSON.stringify(data.user)
JSONstringify(u) == IF u = "u1" THEN "{u1}" ELSE "{u2}"

\* JSON.parse(savedUser)
JSONparse(str) == IF str = "{u1}" THEN "u1" ELSE "u2"

\* the useEffect of AuthProvider: restore the session saved in localStorage
restore ==
    /\ ~auth.mounted
    /\ auth' = IF auth.auth_token # NULL /\ auth.auth_user # NULL
               THEN [auth EXCEPT !.mounted = TRUE, !.token = auth.auth_token,
                                 !.user = JSONparse(auth.auth_user), !.isLoading = FALSE]
               ELSE [auth EXCEPT !.mounted = TRUE, !.isLoading = FALSE]
    /\ UNCHANGED <<dbVars, rd, page, bulk, sched, analysis>>

\* the app is loaded again: the component state starts over, localStorage stays
reload ==
    /\ auth.mounted
    /\ auth' = [InitialAuth EXCEPT !.auth_token = auth.auth_token,
                                   !.auth_user = auth.auth_user,
                                   !.issued = auth.issued]
    /\ UNCHANGED <<dbVars, rd, page, bulk, sched, analysis>>

\* login up to its await fetch(POST /auth/login)
loginStart(cred) ==
    /\ auth.mounted
    /\ auth.pending = NULL
    /\ auth' = [auth EXCEPT !.isLoading = TRUE, !.pending = cred]
    /\ UNCHANGED <<dbVars, rd, page, bulk, sched, analysis>>

\* login from the response on. outcome = "ok": response.ok, for the
\* credentials of a user only; "denied": a non-success response; "network":
\* fetch rejects
loginEnd(outcome) ==
    /\ auth.pending # NULL
    /\ outcome = "ok" => auth.pending \in UserIds /\ auth.issued < MaxLogins
    /\ auth' = IF outcome = "ok"
               THEN [auth EXCEPT !.issued = @ + 1,
                                 !.token = TokenOf(auth.issued + 1),
                                 !.user = auth.pending,
                                 !.auth_token = TokenOf(auth.issued + 1),
                                 !.auth_user = JSONstringify(auth.pending),
                                 !.toast = "Login successful!",
                                 !.returned = "true",
                                 !.isLoading = FALSE, !.pending = NULL]
               ELSE [auth EXCEPT !.toast = "Login failed. Please check your credentials.",
                                 !.returned = "false",
                                 !.isLoading = FALSE, !.pending = NULL]
    /\ UNCHANGED <<dbVars, rd, page, bulk, sched, analysis>>

logoutKeepingUser ==
    /\ auth.mounted
    /\ auth' = [auth EXCEPT !.token = NULL, !.user = NULL, !.auth_token = NULL,
                            !.toast = "Logged out successfully"]
    /\ UNCHANGED <<dbVars, rd, page, bulk, sched, analysis>>

logout ==
    /\ auth.mounted
    /\ auth' = [auth EXCEPT !.token = NULL, !.user = NULL,
                            !.auth_token = NULL, !.auth_user = NULL,
                            !.toast = "Logged out successfully"]
    /\ UNCHANGED <<dbVars, rd, page, bulk, sched, analysis>>

NextAuth ==
    \/ restore
    \/ reload
    \/ \E cred \in Logins : loginStart(cred)
    \/ \E outcome \in {"ok", "denied", "network"} : loginEnd(outcome)
    \/ logout

SpecAuth == Init /\ [][NextAuth]_vars

-----------------------------------------------------------------------------
(* The analysis page *)

\* what the user types into the ticker field
Typed == {<<>>, <<" ">>, <<"a">>, <<"A", " ">>}

\* String.prototype.toUpperCase over the alphabet of the model
UpperChar(c) ==
    IF c = "a" THEN "A" ELSE IF c = "b" THEN "B" ELSE IF c = "c" THEN "C" ELSE c

toUpperCase(str) == [i \in 1..Len(str) |-> UpperChar(str[i])]

\* String.prototype.trim: white space goes from both ends
RECURSIVE trimStart(_)
trimStart(str) ==
    IF str # <<>> /\ Head(str) = " " THEN trimStart(Tail(str)) ELSE str

RECURSIVE trimEnd(_)
trimEnd(str) ==
    IF str # <<>> /\ str[Len(str)] = " "
    THEN trimEnd(SubSeq(str, 1, Len(str) - 1))
    ELSE str

trim(str) == trimEnd(trimStart(str))

\* onChange of the ticker field, which is disabled during an analysis
setTicker(typed) ==
    /\ ~analysis.isAnalyzing
    /\ analysis' = [analysis EXCEPT !.ticker = toUpperCase(typed)]
    /\ UNCHANGED <<dbVars, rd, page, bulk, sched, auth>>

\* handleSubmit up to its await fetch(POST /analyze); no second run starts
\* while the form is disabled
handleSubmit ==
    /\ ~analysis.isAnalyzing
    /\ IF trim(analysis.ticker) = <<>>
       THEN analysis' = [analysis EXCEPT !.toast = "Please enter a ticker symbol"]
       ELSE /\ analysis.requests < MaxRequests
            /\ analysis' = [analysis EXCEPT !.isAnalyzing = TRUE,
                                            !.result = NULL,
                                            !.progress = 0,
                                            !.showProgress = TRUE,
                                            !.pc = "fetch",
                                            !.requests = @ + 1,
                                            !.body = trim(toUpperCase(analysis.ticker)),
                                            !.response = "none",
                                            !.outcome = "running"]
    /\ UNCHANGED <<dbVars, rd, page, bulk, sched, auth>>

\* the catch block, which keeps the progress it finds
CatchKeepingProgress(a) ==
    [a EXCEPT !.toast = "Analysis failed", !.outcome = "caught"]

\* the catch block
Catch(a) ==
    [a EXCEPT !.toast = "Analysis failed", !.progress = 0, !.outcome = "caught"]

\* the finally block: the hide timer of this run is armed
Finally(a) ==
    [a EXCEPT !.isAnalyzing = FALSE, !.timers = @ + 1, !.pc = "idle"]

\* fetch resolves with a response, successful or not; the handler goes on to
\* its await response.json()
fetchResolves(ok) ==
    /\ analysis.pc = "fetch"
    /\ analysis' = [analysis EXCEPT !.progress = 25,
                                    !.response = IF ok THEN "ok" ELSE "error",
                                    !.pc = "json"]
    /\ UNCHANGED <<dbVars, rd, page, bulk, sched, auth>>

\* fetch rejects: catch, then finally
fetchRejects ==
    /\ analysis.pc = "fetch"
    /\ analysis' = Finally(Catch([analysis EXCEPT !.response = "rejected"]))
    /\ UNCHANGED <<dbVars, rd, page, bulk, sched, auth>>

\* response.json() resolves: the successful branch, or the throw of the
\* other branch and catch; then finally
jsonResolves ==
    /\ analysis.pc = "json"
    /\ analysis' =
         IF analysis.response = "ok"
         THEN Finally([analysis EXCEPT !.progress = 100,
                                       !.result = "data",
                                       !.toast = "Analysis completed successfully!",
                                       !.outcome = "completed"])
         ELSE Finally(Catch(analysis))
    /\ UNCHANGED <<dbVars, rd, page, bulk, sched, auth>>

\* response.json() rejects on a body that is no JSON: catch, then finally
jsonRejects ==
    /\ analysis.pc = "json"
    /\ analysis' = Finally(Catch([analysis EXCEPT !.response = "unparsable"]))
    /\ UNCHANGED <<dbVars, rd, page, bulk, sched, auth>>

\* the callback of one pending setTimeout(() => setShowProgress(false), 3000)
hideTimerFires ==
    /\ analysis.timers > 0
    /\ analysis' = [analysis EXCEPT !.showProgress = FALSE, !.timers = @ - 1]
    /\ UNCHANGED <<dbVars, rd, page, bulk, sched, auth>>

NextAnalysis ==
    \/ \E typed \in Typed : setTicker(typed)
    \/ handleSubmit
    \/ \E ok \in BOOLEAN : fetchResolves(ok)
    \/ fetchRejects
    \/ jsonResolves
    \/ jsonRejects
    \/ hideTimerFires

SpecAnalysis == Init /\ [][NextAnalysis]_vars

-----------------------------------------------------------------------------
(* Properties *)

IsPrefix(p, q) == Len(p) <= Len(q) /\ SubSeq(q, 1, Len(p)) = p

\* the status DELETE /reports/{id} answers with
DeleteStatus(id, requester) == ExternalStatus(Access(id, requester))

\* the retrieval in flight names an existing report of somebody else
ForeignRead ==
    /\ rd.pc # "idle"
    /\ rd.id \in DOMAIN reports
    /\ reports[rd.id].user_id # rd.requester

C1_ReadIsolated ==
    ForeignRead =>
        /\ rd.status = Retrieve(rd.kind, NoSuchId, rd.requester, rd.repr).status
        /\ rd.buf = Retrieve(rd.kind, NoSuchId, rd.requester, rd.repr).bytes
        /\ rd.sent = <<>>

C1_DeleteIsolated ==
    \A id \in ReportIds, u \in UserIds :
        (DeleteOne(id, u) /\ id \in DOMAIN reports /\ reports[id].user_id # u) =>
            /\ ret'.status = DeleteStatus(NoSuchId, u)
            /\ reports' = reports

\* C1: a view, download or delete of an existing report by a user who is not
\* its owner gives the same status and body as the same request for an id that
\* does not exist, delivers none of the report's bytes, and leaves the report
\* in the table.
C1_Isolation == []C1_ReadIsolated /\ [][C1_DeleteIsolated]_vars

C1_Witness ==
    /\ ForeignRead
    /\ rd.pc = "done"
    /\ reports[rd.id].user_id \in UserIds
    /\ ret.op = "delete"
    /\ ret.foreign

\* C2 as claimed: cleanup_expired_reports() leaves exactly the reports with
\* expires_at > now, so a report whose expires_at equals now is deleted, and
\* returns the number of rows it deleted.
C2_ReclaimInclusive ==
    [][cleanup_expired_reports =>
          /\ DOMAIN reports' = {id \in DOMAIN reports : reports[id].expires_at > now}
          /\ ret'.deleted_count = Cardinality(DOMAIN reports \ DOMAIN reports')]_vars

\* C2 as amended: cleanup_expired_reports() deletes exactly the reports with
\* expires_at < now, keeps every report with expires_at >= now (one whose
\* expires_at equals now included) unchanged, and returns the number of rows
\* it deleted.
C2_ReclaimStrict ==
    [][cleanup_expired_reports =>
          /\ DOMAIN reports' = {id \in DOMAIN reports : reports[id].expires_at >= now}
          /\ \A id \in DOMAIN reports' : reports'[id] = reports[id]
          /\ ret'.deleted_count = Cardinality(DOMAIN reports \ DOMAIN reports')]_vars

C2_Witness ==
    /\ ret.op = "cleanup_expired_reports"
    /\ ret.at = now
    /\ ret.deleted_count >= 1
    /\ \E id \in DOMAIN reports : reports[id].expires_at = now

\* C3 as claimed: a report that was created and has been removed neither by a
\* cleanup function nor by an explicit delete still exists.
C3_OnlyTwoWays ==
    \A id \in used : cause[id] \notin {"expired", "old", "explicit"} => id \in DOMAIN reports

\* C3 as amended: a report stops existing only through a cleanup function, an
\* explicit delete by its owner, or the ON DELETE CASCADE of its user or of its
\* analysis session; inserting sessions or results and deleting results never
\* removes a report.
C3_OnlyDeletesAndCascades ==
    \A id \in used :
        id \notin DOMAIN reports =>
            cause[id] \in {"expired", "old", "explicit", "cascade_user", "cascade_session"}

C3_Witness ==
    /\ \E id \in used : cause[id] \in {"cascade_user", "cascade_session"}
    /\ \E id \in used : cause[id] \in {"expired", "explicit"}
    /\ DOMAIN results # {}

\* C4: a retrieval that begins after the delete of its report (explicit or by
\* expiry) has committed is answered "not accessible" with no bytes; a
\* retrieval by the owner, of the stored representation, that has completed
\* while the report still exists has succeeded with the whole content.
C4_DeleteThenRead ==
    /\ (rd.pc # "idle" /\ rd.afterDelete) =>
            rd.pc = "done" /\ rd.status = "not_accessible" /\ rd.sent = <<>>
    /\ (/\ rd.pc = "done"
        /\ rd.id \in DOMAIN reports
        /\ reports[rd.id].user_id = rd.requester
        /\ reports[rd.id].report_type = rd.repr) =>
            rd.status = "ok" /\ rd.sent = reports[rd.id].file_content

C4_Witness ==
    /\ rd.pc = "done"
    /\ rd.afterDelete
    /\ rd.status = "not_accessible"

\* C5: a retrieval that is not refused for its representation ends either with
\* status ok and the complete content of the report as it was stored, or "not
\* accessible" with no bytes; while it streams, what it has delivered is a
\* prefix of that content, also when the row is deleted or reclaimed meanwhile.
C5_NoPartialRead ==
    /\ rd.pc = "streaming" =>
            rd.status = "ok" /\ IsPrefix(rd.sent, ContentOf(rd.id, rd.repr))
    /\ (rd.pc = "done" /\ rd.status # "RepresentationUnavailable") =>
            \/ rd.status = "ok" /\ rd.sent = ContentOf(rd.id, rd.repr)
            \/ rd.status = "not_accessible" /\ rd.sent = <<>>

C5_Witness ==
    /\ rd.pc = "streaming"
    /\ Len(rd.sent) = 1
    /\ rd.id \notin DOMAIN reports
    /\ cause[rd.id] = "expired"

\* C6: the owner's retrieval of a representation the report was not stored in
\* is answered RepresentationUnavailable, which differs from the "not
\* accessible" answer, and delivers no bytes; no retrieval ever delivers bytes
\* of a representation other than the one it asked for.
C6_RepresentationUnavailable ==
    /\ (/\ rd.pc # "idle"
        /\ rd.id \in DOMAIN reports
        /\ reports[rd.id].user_id = rd.requester
        /\ reports[rd.id].report_type # rd.repr) =>
            /\ rd.status = "RepresentationUnavailable"
            /\ rd.status # DeleteStatus(NoSuchId, rd.requester)
            /\ rd.buf = <<>>
            /\ rd.sent = <<>>
    /\ \A type \in ReportTypes \ {rd.repr} :
            rd.sent = <<>> \/ ~IsPrefix(rd.sent, ContentOf(rd.id, type))

C6_Witness ==
    /\ rd.pc = "done"
    /\ rd.id \in DOMAIN reports
    /\ reports[rd.id].user_id = rd.requester
    /\ reports[rd.id].report_type # rd.repr
    /\ rd.status = "RepresentationUnavailable"

\* C7: when a deleteSelectedReports run has ended, a DELETE was attempted for
\* every report that was selected, whatever failed on the way.
C7_BulkContinues ==
    (bulk.pc = "done" /\ bulk.totalSelected > 0) =>
        Cardinality(bulk.attempted) = bulk.totalSelected

\* C8: when a deleteSelectedReports run has ended, it has reported a count, and
\* the count is the number of reports its own DELETE requests removed.
C8_BulkCount ==
    (bulk.pc = "done" /\ bulk.totalSelected > 0) =>
        bulk.reported = Cardinality(bulk.removed)

\* C9: every row of reports has expires_at strictly after created_at, namely
\* created_at plus the 5 days of the retention window.
C9_ExpiresAfterCreated ==
    \A id \in DOMAIN reports :
        /\ reports[id].expires_at > reports[id].created_at
        /\ reports[id].expires_at = reports[id].created_at + RetentionDays

C9_Witness ==
    \E id \in DOMAIN reports : reports[id].created_at = MaxCreateTime /\ now > reports[id].expires_at

\* C10: a Create without bytes or without an owner is rejected and persists
\* nothing, so no row of reports is without an owner.
C10_CreateValidates ==
    /\ \A id \in DOMAIN reports : reports[id].user_id # NULL
    /\ (ret.op = "create" /\ (ret.ownerless \/ ~ret.hasContent)) => ret.status = "rejected"

C12_DownloadChecksExpiry ==
    (ret.op = "retrieve" /\ ret.kind = "download" /\ ret.lifetime = "overdue") =>
        ret.status # "ok" /\ ret.bytes = <<>>

\* C13: a view, a download or a listing, answered ok or refused, changes no
\* row of reports and no row of the tables around it.
C13_ReadsArePure ==
    [][(\/ \E kind \in {"view", "download"}, id \in ReportIds \cup {NoSuchId},
              u \in UserIds, format \in ReportTypes : GetReport(kind, id, u, format)
        \/ \E u \in UserIds, term \in SearchTerms : List(u, term)) =>
            UNCHANGED <<users, sessions, results, reports>>]_vars

C13_Witness ==
    /\ ret.op = "retrieve"
    /\ ret.status = "ok"
    /\ ret.id \in DOMAIN reports
    /\ ret.bytes = reports[ret.id].file_content
    /\ \E id \in DOMAIN reports : reports[id].user_id # ret.requester

\* C14: cleanup_expired_reports() run again at the same now, with no report
\* created since its last run, deletes nothing, returns 0 and leaves every row
\* as it is; a run that matches no row returns 0 too, as an ordinary result.
C14_ReclaimIdempotent ==
    [][cleanup_expired_reports =>
          /\ (ret.op = "cleanup_expired_reports" /\ ret.at = now) =>
                ret'.deleted_count = 0 /\ reports' = reports /\ results' = results
          /\ ExpiredRows(reports, now) = {} =>
                ret'.deleted_count = 0 /\ reports' = reports /\ results' = results]_vars

C14_Witness ==
    /\ now = RetentionDays + 1
    /\ ret.op = "cleanup_expired_reports"
    /\ ret.at = now
    /\ ret.deleted_count = 0
    /\ \E id \in used : cause[id] = "expired"
    /\ DOMAIN reports # {}

C16_OneReclaimAtATime ==
    /\ [](sched.active <= 1)
    /\ [][(SchedulerTick /\ sched.pc = "reclaiming") =>
            /\ sched'.active = sched.active
            /\ sched'.pc = "reclaiming"
            /\ sched'.skipped
            /\ reports' = reports]_vars

C16_Witness ==
    /\ sched.pc = "reclaiming"
    /\ sched.active = 1
    /\ sched.skipped
    /\ ExpiredRows(reports, now) # {}

\* C17: the scheduler never stops; a cycle whose Reclaim fails removes nothing
\* and changes no row, and the tick after a failed cycle starts a Reclaim.
C17_FailureIsolated ==
    /\ [](sched.pc # "crashed")
    /\ [][ReclaimFail => reports' = reports /\ results' = results]_vars
    /\ [][(SchedulerTick /\ sched.pc = "sleeping" /\ sched.last = "failed") =>
            sched'.pc = "reclaiming" /\ sched'.active = 1]_vars

C17_Witness ==
    /\ sched.pc = "sleeping"
    /\ sched.last = "ok"
    /\ sched.recovered
    /\ ret.op = "cleanup_expired_reports"
    /\ ret.deleted_count >= 1

\* C18: every report that exists at or after its expires_at is eventually
\* gone, whatever ticks were skipped and whatever cycles failed before.
C18_ExpiredEventuallyRemoved ==
    \A id \in ReportIds :
        (id \in DOMAIN reports /\ now >= reports[id].expires_at) ~> (id \notin DOMAIN reports)

C18_Witness ==
    /\ \E id \in used : cause[id] = "expired"
    /\ sched.last = "ok"
    /\ sched.recovered
    /\ sched.pc = "sleeping"
    /\ ret.op = "cleanup_expired_reports"
    /\ ret.deleted_count = 2

\* the ids the list of requester under term is claimed to show
OwnedMatching(requester, term) ==
    {id \in DOMAIN reports :
        reports[id].user_id = requester /\ Matches(ViewRow(id, NULL), term)}

\* C19: a listing for a requester under a search term is produced and shows
\* exactly the existing reports of the requester that match the term, rows of
\* nobody else, and no row carries file_content.
C19_ListExact ==
    ret.op = "history" =>
        /\ ret.error = "none"
        /\ {ret.rows[i].report_id : i \in 1..Len(ret.rows)} =
                OwnedMatching(ret.requester, ret.term)
        /\ \A i \in 1..Len(ret.rows) :
                /\ ret.rows[i].user_id = ret.requester
                /\ "file_content" \notin DOMAIN ret.rows[i]

\* C20 as claimed: a listing is ordered by created_at descending and, among
\* reports with equal created_at, by report_id ascending, so one table content
\* has one list order.
C20_OrderWithTieBreak ==
    (ret.op = "history" /\ ret.error = "none") =>
        \A i, j \in 1..Len(ret.rows) :
            i < j =>
                \/ ret.rows[i].created_at > ret.rows[j].created_at
                \/ /\ ret.rows[i].created_at = ret.rows[j].created_at
                   /\ IdRank(ret.rows[i].report_id) < IdRank(ret.rows[j].report_id)

\* C20 as amended: a listing is ordered by created_at descending, a newer
\* report before an older one whatever their ids; the order among reports with
\* equal created_at is left open.
C20_NewestFirst ==
    (ret.op = "history" /\ ret.error = "none") =>
        \A i, j \in 1..Len(ret.rows) :
            i < j => ret.rows[i].created_at >= ret.rows[j].created_at

C20_Witness ==
    /\ ret.op = "history"
    /\ ret.error = "none"
    /\ Len(ret.rows) = 2
    /\ ret.rows[1].created_at > ret.rows[2].created_at
    /\ IdRank(ret.rows[1].report_id) > IdRank(ret.rows[2].report_id)

\* text str holds term as a substring when case is ignored; a NULL text
\* holds nothing
ContainsIgnoringCase(str, term) ==
    /\ str # NullStr
    /\ \E i \in 0..(Len(str) - Len(term)) :
          \A k \in 1..Len(term) : LowerChar(str[i + k]) = LowerChar(term[k])

\* C21: the search filter gives a result for every loaded list, the result
\* holds exactly the reports whose ticker or company name contains the term,
\* case ignored, and the empty term keeps every report, a report without
\* company name included.
C21_FilterTotal ==
    ret.op = "history" =>
        /\ ret.error = "none"
        /\ \A row \in HistoryRows(ret.requester) :
              (\E i \in 1..Len(ret.rows) : ret.rows[i] = row) <=>
                  \/ ContainsIgnoringCase(row.ticker, ret.term)
                  \/ ContainsIgnoringCase(row.company_name, ret.term)
        /\ ret.term = <<>> => Len(ret.rows) = Cardinality(HistoryRows(ret.requester))

\* C22: after every step each report has one owner, and user_id and created_at
\* of a report that existed before the step are what they were before it.
C22_OneImmutableOwner ==
    [][\A id \in DOMAIN reports' :
          /\ reports'[id].user_id \in UserIds
          /\ id \in DOMAIN reports =>
                /\ reports'[id].user_id = reports[id].user_id
                /\ reports'[id].created_at = reports[id].created_at]_vars

\* C23: a deleteReport whose DELETE request succeeds takes the report out of
\* the table and out of the displayed list and closes the confirmation modal;
\* one whose request is refused, answered with an error or thrown leaves the
\* table and the displayed list as they were and the modal open.
C23_SingleDelete ==
    [][\A failure \in {"none", "network", "server"} :
          deleteReport(failure) =>
              LET id == page.showDeleteConfirm
                  succeeds == /\ failure = "none"
                              /\ id \in DOMAIN reports
                              /\ reports[id].user_id = pageUser
              IN  IF succeeds
                  THEN /\ id \notin DOMAIN reports'
                       /\ page'.reports = page.reports \ {id}
                       /\ page'.showDeleteConfirm = NULL
                  ELSE /\ reports' = reports
                       /\ page'.reports = page.reports
                       /\ page'.showDeleteConfirm = id]_vars

C23_Witness ==
    /\ page.toast = "Report deleted successfully!"
    /\ page.showDeleteConfirm = NULL
    /\ ret.op = "delete"
    /\ ret.status = "ok"
    /\ page.reports # {}
    /\ \E id \in used \ page.reports : cause[id] = "explicit"

\* C24: every selected id is the id of a report of the loaded list.
C24_SelectionWithinList == page.selectedReports \subseteq page.reports

\* the filtered list is not empty and every report of it is selected
AllFilteredSelected == FilteredIds # {} /\ FilteredIds \subseteq page.selectedReports

\* C25: whenever the page is rendered, Select All is checked exactly when the
\* filtered list is not empty and wholly selected; toggleSelectAll empties the
\* selection in that case and otherwise makes it the filtered list.
C25_SelectAllExact ==
    [][/\ Rendered' => (SelectAllChecked' <=> AllFilteredSelected')
       /\ toggleSelectAll =>
            page'.selectedReports = IF AllFilteredSelected THEN {} ELSE FilteredIds]_vars

C27_SubmitOutcomes ==
    /\ [](/\ analysis.pc = "idle" => ~analysis.isAnalyzing
          /\ (analysis.progress = 100 \/ analysis.result # NULL)
                => /\ analysis.response = "ok"
                   /\ analysis.outcome = "completed"
                   /\ analysis.progress = 100
                   /\ analysis.result # NULL
          /\ (analysis.pc = "idle"
                /\ analysis.response \in {"error", "rejected", "unparsable"})
                => analysis.progress = 0 /\ analysis.result = NULL)
    /\ [][(handleSubmit /\ trim(analysis.ticker) = <<>>)
            => analysis' = [analysis EXCEPT !.toast = analysis'.toast]]_vars
    /\ [][(analysis.pc # "idle" /\ analysis'.pc = "idle")
            => ~analysis'.isAnalyzing]_vars

\* an analysis has failed on an unsuccessful response after an earlier one
\* completed, and a submit of a blank ticker was refused since
C27_Witness ==
    /\ analysis.pc = "idle"
    /\ analysis.requests = 2
    /\ analysis.response = "error"
    /\ analysis.outcome = "caught"
    /\ analysis.progress = 0
    /\ analysis.result = NULL
    /\ trim(analysis.ticker) = <<>>
    /\ analysis.ticker # <<>>
    /\ analysis.toast = "Please enter a ticker symbol"

\* C28: in every reachable state isAnalyzing implies showProgress, a new
\* analysis submitted while the hide timer of the previous one is pending
\* included
C28_PanelShownWhileAnalyzing == analysis.isAnalyzing => analysis.showProgress

C30_OneRowPerReport ==
    \A id \in DOMAIN reports :
        Cardinality({row \in user_report_history : row.report_id = id}) = 1

====
